---- MODULE Spec2Model ----
(***************************************************************************)
(* Model of the UDP log collector (zwl7/logCollectByUdp): the fixed worker *)
(* pool (WorkerPool), the datagram receive loop (startUDPServer) and the   *)
(* record conversion (processData).                                        *)
(*                                                                         *)
(* Two programs are described over the same pool:                          *)
(*   Spec        the WorkerPool API driven by client goroutines that call  *)
(*               Submit and by one goroutine that calls Close;             *)
(*   ServerSpec  the program main builds: NewWorkerPool, a deferred Close, *)
(*               and startUDPServer submitting one processData closure per *)
(*               datagram read.                                            *)
(* and, from them:                                                         *)
(*   FairSpec, FairServerSpec  the same under fair scheduling;             *)
(*   SocketSpec  ServerSpec with the closed socket told apart from the     *)
(*               other read errors;                                        *)
(*   BlockSpec   an open pool whose clients also submit tasks that never   *)
(*               return, under fair scheduling;                            *)
(*   ConvSpec    the conversion of processData alone, from a set of        *)
(*               decoded records.                                          *)
(*                                                                         *)
(* Go strings are sequences of one-character strings.  A datagram payload  *)
(* is a sequence of units: a whitespace byte, a byte "x" that is not part  *)
(* of any JSON text, or a symbol "J..." standing for the bytes of one JSON *)
(* object, whose members are listed in Docs.                               *)
(***************************************************************************)
EXTENDS Integers, Sequences, FiniteSets, TLC

\* ---------------------------------------------------------------- bounds
\* number of worker goroutines (runtime.NumCPU()*50 in main)
Workers == 2
\* queue slots per worker (100 in NewWorkerPool), scaled down
QueuePerWorker == 1
\* number of non-nil Submit calls the API clients make
MaxTasks == 3
\* number of datagrams the socket delivers that the pool accepts
MaxDatagrams == 3
\* number of datagrams the socket delivers that the pool rejects
MaxDrops == 1
\* units the receive buffer holds (1024*60 bytes in startUDPServer), scaled down
BufSize == 3

WorkerIds == 0..(Workers - 1)
Producers == {"p1", "p2"}

\* ------------------------------------------------------------ Go strings
Whitespace == {" ", "\t", "\n", "\r"}

RECURSIVE TrimLeft(_)
TrimLeft(s) ==
    IF s # <<>> /\ Head(s) \in Whitespace THEN TrimLeft(Tail(s)) ELSE s

RECURSIVE TrimRight(_)
TrimRight(s) ==
    IF s # <<>> /\ s[Len(s)] \in Whitespace
    THEN TrimRight(SubSeq(s, 1, Len(s) - 1)) ELSE s

\* strings.TrimSpace
TrimSpace(s) == TrimRight(TrimLeft(s))

\* strings.Split(s, sep) for a one-byte sep: the pieces between separators,
\* empty pieces included; Split("", " ") is a slice holding one empty string
RECURSIVE Split(_, _)
Split(s, sep) ==
    IF \A i \in 1..Len(s) : s[i] # sep THEN <<s>>
    ELSE LET k == CHOOSE i \in 1..Len(s) :
                     s[i] = sep /\ \A j \in 1..(i - 1) : s[j] # sep
         IN  <<SubSeq(s, 1, k - 1)>> \o Split(SubSeq(s, k + 1, Len(s)), sep)

\* -------------------------------------------------------------- strconv
Digits == {"0", "1", "2", "3", "4", "5", "6", "7", "8", "9"}

DigitVal(c) ==
    CASE c = "0" -> 0 [] c = "1" -> 1 [] c = "2" -> 2 [] c = "3" -> 3
      [] c = "4" -> 4 [] c = "5" -> 5 [] c = "6" -> 6 [] c = "7" -> 7
      [] c = "8" -> 8 [] c = "9" -> 9

\* the largest value of the model's int: Go's int is 64 bits wide, the
\* model's is 31, so that a digit string out of range stays expressible
IntMax == 2147483647

\* the value of a digit string, saturating at IntMax (strconv's range error
\* returns the largest value of the type next to the error)
RECURSIVE DigitsValue(_, _)
DigitsValue(s, acc) ==
    IF s = <<>> THEN acc
    ELSE IF acc > (IntMax - DigitVal(Head(s))) \div 10 THEN IntMax
    ELSE DigitsValue(Tail(s), acc * 10 + DigitVal(Head(s)))

IsDigits(s) == s # <<>> /\ \A i \in 1..Len(s) : s[i] \in Digits

\* the smallest value of the model's int
IntMin == 0 - IntMax - 1

\* whether the value of a digit string is at most IntMax
RECURSIVE DigitsInRange(_, _)
DigitsInRange(s, acc) ==
    IF s = <<>> THEN TRUE
    ELSE IF acc > (IntMax - DigitVal(Head(s))) \div 10 THEN FALSE
    ELSE DigitsInRange(Tail(s), acc * 10 + DigitVal(Head(s)))

\* the error strconv.Atoi returns next to its value: "nil", "syntax"
\* (strconv.ErrSyntax) or "range" (strconv.ErrRange); the one text whose
\* magnitude is IntMax + 1 is counted out of range under either sign
AtoiErr(s) ==
    LET signed == s # <<>> /\ Head(s) \in {"+", "-"}
        body   == IF signed THEN Tail(s) ELSE s
    IN  IF ~IsDigits(body) THEN "syntax"
        ELSE IF ~DigitsInRange(body, 0) THEN "range"
        ELSE "nil"

\* strconv.Atoi with the error result dropped (Status, _ := ...): a syntax
\* error gives 0, a range error gives the largest value of the sign
Atoi(s) ==
    LET signed == s # <<>> /\ Head(s) \in {"+", "-"}
        body   == IF signed THEN Tail(s) ELSE s
        neg    == signed /\ Head(s) = "-"
    IN  IF ~IsDigits(body) THEN 0
        ELSE IF ~neg THEN DigitsValue(body, 0)
        ELSE IF DigitsInRange(body, 0) THEN 0 - DigitsValue(body, 0)
        ELSE IntMin

\* strconv.ParseFloat(s, 64) with the error result dropped, for decimal
\* texts of the shape [sign] digits [ "." digits ]: the value is the pair
\* <<m, e>> standing for m / 10^e; any other text over the alphabet of the
\* inputs below is a syntax error and gives the zero value
ZeroFloat == <<0, 0>>

RECURSIVE StripZeros(_)
StripZeros(f) ==
    IF f[2] > 0 /\ f[1] % 10 = 0 THEN StripZeros(<<f[1] \div 10, f[2] - 1>>)
    ELSE f

\* the error strconv.ParseFloat returns next to its value, for the same texts
ParseFloatErr(s) ==
    LET signed == s # <<>> /\ Head(s) \in {"+", "-"}
        body   == IF signed THEN Tail(s) ELSE s
        parts  == Split(body, ".")
        ip     == parts[1]
        fp     == IF Len(parts) = 2 THEN parts[2] ELSE <<>>
    IN  IF /\ Len(parts) \in {1, 2}
           /\ \A i \in 1..Len(ip) : ip[i] \in Digits
           /\ \A i \in 1..Len(fp) : fp[i] \in Digits
           /\ ip \o fp # <<>>
        THEN "nil" ELSE "syntax"

ParseFloat(s) ==
    LET signed == s # <<>> /\ Head(s) \in {"+", "-"}
        body   == IF signed THEN Tail(s) ELSE s
        neg    == signed /\ Head(s) = "-"
        parts  == Split(body, ".")
        ip     == parts[1]
        fp     == IF Len(parts) = 2 THEN parts[2] ELSE <<>>
        ok     == /\ Len(parts) \in {1, 2}
                  /\ \A i \in 1..Len(ip) : ip[i] \in Digits
                  /\ \A i \in 1..Len(fp) : fp[i] \in Digits
                  /\ ip \o fp # <<>>
        m      == DigitsValue(ip \o fp, 0)
    IN  IF ~ok THEN ZeroFloat
        ELSE StripZeros(<<IF neg THEN 0 - m ELSE m, Len(fp)>>)

\* ------------------------------------------------------------ time
\* int64(logData.Date): a non-negative float held as <<whole seconds, tenths>>
\* loses its fraction
Int64OfDate(d) == d[1]

\* offset in seconds of the zone the process runs in (time.Unix gives local
\* time)
ZoneOffset == 28800

\* time.Unix(sec, 0).Format("2006-01-02 15:04:05"): the day counted from
\* 1970-01-01 and the clock time, at second resolution, in the local zone
FormatTime(sec) ==
    LET loc == sec + ZoneOffset
        day == loc \div 86400
        rem == loc % 86400
    IN  <<day, rem \div 3600, (rem % 3600) \div 60, rem % 60>>

\* ------------------------------------------------------------ records
\* the text "GET /hyperfApi/demo/test HTTP/1.1" and its like, one character
\* a token
ReqThree == <<"G", " ", "/", " ", "H">>
ReqTwo == <<"G", " ", "/">>
ReqFour == <<"G", " ", "/", " ", "H", " ", "e">>

\* the zero value of LogData
ZeroLogData ==
    [Date |-> <<0, 0>>, RemoteAddr |-> <<>>, RemoteUser |-> <<>>,
     Request |-> <<>>, Status |-> <<>>, BodyBytesSent |-> <<>>,
     HttpReferer |-> <<>>, HttpUserAgent |-> <<>>, RequestTime |-> <<>>,
     UpstreamResponseTime |-> <<>>, RequestLength |-> <<>>,
     BytesSent |-> <<>>, HttpXForwardedFor |-> <<>>, HttpXRealIp |-> <<>>,
     Scheme |-> <<>>, HttpHost |-> <<>>, ServerName |-> <<>>]

\* the sample record of the LogData comment
SampleLogData ==
    [Date |-> <<1751372240, 0>>, RemoteAddr |-> <<"1">>, RemoteUser |-> <<"-">>,
     Request |-> ReqThree, Status |-> <<"2", "0", "0">>,
     BodyBytesSent |-> <<"1", "5", "4">>,
     HttpReferer |-> <<"-">>, HttpUserAgent |-> <<"P">>,
     RequestTime |-> <<"0", ".", "0", "7", "1">>,
     UpstreamResponseTime |-> <<"0", ".", "0", "7", "1">>,
     RequestLength |-> <<"2", "0", "1">>, BytesSent |-> <<"5", "5", "3">>,
     HttpXForwardedFor |-> <<"-">>, HttpXRealIp |-> <<"-">>,
     Scheme |-> <<"h">>, HttpHost |-> <<"l">>, ServerName |-> <<"l">>]

\* the JSON objects the payloads carry, by symbol: the members a well-formed
\* object sets (a member the object lacks keeps its zero value)
Docs ==
    [j \in {"Jok", "J2", "J4", "Jnum"} |->
        CASE j = "Jok"  -> SampleLogData
          [] j = "J2"   -> [SampleLogData EXCEPT !.Request = ReqTwo]
          [] j = "J4"   -> [SampleLogData EXCEPT !.Request = ReqFour]
          [] j = "Jnum" -> [SampleLogData EXCEPT
                               !.Date = <<86399, 9>>,
                               !.Status = <<"a", "b", "c">>,
                               !.BodyBytesSent = <<>>,
                               !.RequestTime = <<"1", ".", "5", "0">>,
                               !.UpstreamResponseTime = <<"-">>,
                               !.RequestLength = <<"9", "9", "9", "9", "9",
                                                   "9", "9", "9", "9", "9">>,
                               !.BytesSent = <<"-", "7">>]]

\* json.Unmarshal([]byte(trimmedData), &logData) with the error dropped: the
\* text is checked whole before anything is stored, so a text that is not one
\* JSON object leaves logData at its zero value
Unmarshal(text) ==
    LET t == TrimSpace(text)
    IN  IF Len(t) = 1 /\ t[1] \in DOMAIN Docs THEN Docs[t[1]] ELSE ZeroLogData

\* processData from the split on: nginxAccessLog as it is built
NginxAccessLog(logData, url) ==
    [TimeIso8601 |-> FormatTime(Int64OfDate(logData.Date)),
     RemoteAddr |-> logData.RemoteAddr,
     RemoteUser |-> logData.RemoteUser,
     Method |-> url[1],
     RequestUri |-> url[2],
     HttpVersion |-> url[3],
     Status |-> Atoi(logData.Status),
     BodyBytesSent |-> Atoi(logData.BodyBytesSent),
     HttpReferer |-> logData.HttpReferer,
     HttpUserAgent |-> logData.HttpUserAgent,
     RequestTime |-> ParseFloat(logData.RequestTime),
     UpstreamResponseTime |-> ParseFloat(logData.UpstreamResponseTime),
     RequestLength |-> Atoi(logData.RequestLength),
     BytesSent |-> Atoi(logData.BytesSent),
     HttpXForwardedFor |-> logData.HttpXForwardedFor,
     HttpXRealIp |-> logData.HttpXRealIp,
     Scheme |-> logData.Scheme,
     HttpHost |-> logData.HttpHost,
     ServerName |-> logData.ServerName]

\* processData without the check of the trimmed text
ProcessKindNoBlankCheck(data) ==
    LET trimmedData == TrimSpace(data)
        url == Split(Unmarshal(trimmedData).Request, " ")
    IN  IF Len(data) = 0 THEN "empty"
        ELSE IF Len(url) < 3 THEN "panic"
        ELSE "row"

\* how processData(data, remoteAddr) ends:
\*   "empty"  len(data) == 0, return
\*   "blank"  len(trimmedData) == 0, return
\*   "panic"  url[1] or url[2] indexes past the end of url
\*   "row"    nginxAccessLog is built and printed, the insert is reported
ProcessKind(data) ==
    LET trimmedData == TrimSpace(data)
        url == Split(Unmarshal(trimmedData).Request, " ")
    IN  IF Len(data) = 0 THEN "empty"
        ELSE IF Len(trimmedData) = 0 THEN "blank"
        ELSE IF Len(url) < 3 THEN "panic"
        ELSE "row"

\* processData(data, remoteAddr): how it ends, whether json.Unmarshal ran,
\* and the row it printed, if any
ProcessData(data) ==
    LET kind == ProcessKind(data)
        logData == Unmarshal(TrimSpace(data))
    IN  [kind |-> kind,
         decoded |-> kind \in {"panic", "row"},
         row |-> IF kind = "row"
                 THEN <<NginxAccessLog(logData, Split(logData.Request, " "))>>
                 ELSE <<>>]

\* ------------------------------------------------------------- inputs
NoAddr == "nil"

\* the datagrams the socket may deliver: payload and sender
Datagrams ==
    { [data |-> <<>>, from |-> "a1"],
      [data |-> <<" ">>, from |-> "a1"],
      [data |-> <<"x">>, from |-> "a2"],
      [data |-> <<" ", "Jok", "\n">>, from |-> "a1"],
      [data |-> <<"J2">>, from |-> "a1"],
      [data |-> <<"J4">>, from |-> "a2"] }

\* the texts a decoded record may carry in an integer member and in a float
\* member: well formed, not a number, empty, signed, and too long for the int
IntTexts ==
    { <<"2", "0", "0">>, <<"a", "b", "c">>, <<>>, <<"-", "7">>,
      <<"9", "9", "9", "9", "9", "9", "9", "9", "9", "9">> }
FloatTexts == { <<"0", ".", "0", "7", "1">>, <<"1", ".", "5", "0">>, <<"-">> }

\* the decoded records a conversion may start from
WireRecords ==
    { [SampleLogData EXCEPT !.Request = rq, !.Status = st,
                            !.BodyBytesSent = bb, !.RequestLength = rl,
                            !.BytesSent = bs, !.RequestTime = rt,
                            !.UpstreamResponseTime = ut] :
        rq \in {ReqThree, ReqTwo}, st \in IntTexts, bb \in IntTexts,
        rl \in IntTexts, bs \in IntTexts, rt \in FloatTexts, ut \in FloatTexts }

\* the task bodies the API clients submit: a func() that returns, one that
\* panics, and the nil func
Bodies == {"return", "panic", "nil"}

NilTask == [id |-> 0, fn |-> "nil", data |-> <<>>, addr |-> NoAddr]

\* a non-nil func() value: the body and what the closure captured
Closure(id, fn, data, addr) == [id |-> id, fn |-> fn, data |-> data, addr |-> addr]

NoCall == [nil |-> FALSE, full |-> FALSE, closed |-> FALSE, res |-> "none"]

\* processData has not reached the conversion
NotConverted == [kind |-> "none", row |-> <<>>]

\* -------------------------------------------------------------- state
VARIABLES
    taskQueue,        \* wp.taskQueue: the buffered channel's contents
    closed,           \* the channel has been closed
    wg,               \* wp.wg's counter
    wstate,           \* each worker: "range" (at the channel), "task", "exited"
    cur,              \* the task each worker is executing
    proc,             \* the process: "running", "crashed" (panic), "exited"
    cpc,              \* the Close call: "deferred", "idle", "wait", "returned"
    lastCall,         \* the API clients' last Submit: argument, state found, result
    rpc,              \* the receiver: "off", "bind", "read", "stopped"
    buffer,           \* the receive buffer
    readErrLogged,    \* a failed read has been logged
    readAfterErr,     \* a datagram has been read and accepted after a failed read
    nextId,           \* number of the next task or datagram
    connClosed,       \* a read has failed because the socket is closed
    dgram,            \* the bytes read of each datagram
    sender,           \* the address each datagram was read from
    accepted,         \* tasks whose Submit returned true
    rejected,         \* tasks whose Submit returned false
    acceptors,        \* API clients that had a Submit return true
    atClose,          \* when Close was called: tasks accepted, queued, in flight
    started,          \* times each task was taken off the queue
    done,             \* tasks whose execution ended
    result,           \* how each ended
    rows,             \* the rows printed, by task
    inserted,         \* times the insert was reported, by task
    decoded,          \* tasks that ran json.Unmarshal
    panicLog,         \* <<worker, task>> of each recovered panic logged
    dropLog,          \* sender logged for each dropped datagram
    logData,          \* the decoded record a conversion starts from
    nginxAccessLog    \* what the conversion of logData came to

poolVars == <<taskQueue, closed, wg, wstate, cur>>
recvVars == <<rpc, buffer, readErrLogged, readAfterErr, connClosed, dgram,
             sender, dropLog>>
convVars == <<logData, nginxAccessLog>>
taskVars == <<started, done, result, rows, inserted, decoded, panicLog>>
vars == <<poolVars, proc, cpc, lastCall, recvVars, convVars, nextId, accepted, rejected,
          acceptors, atClose, taskVars>>

QueueCap == Workers * QueuePerWorker

AllIds == 0..(MaxTasks + MaxDatagrams + MaxDrops)

\* NewWorkerPool(workers): the state once it has returned
NewWorkerPool ==
    /\ taskQueue = <<>>
    /\ closed = FALSE
    /\ wg = Workers
    /\ wstate = [w \in WorkerIds |-> "range"]
    /\ cur = [w \in WorkerIds |-> NilTask]

InitRest ==
    /\ proc = "running"
    /\ lastCall = NoCall
    /\ buffer = [i \in 1..BufSize |-> "nul"]
    /\ readErrLogged = FALSE
    /\ readAfterErr = FALSE
    /\ connClosed = FALSE
    /\ nextId = 1
    /\ dgram = [i \in AllIds |-> <<>>]
    /\ sender = [i \in AllIds |-> NoAddr]
    /\ accepted = {}
    /\ rejected = {}
    /\ acceptors = {}
    /\ atClose = [accepted |-> {}, queued |-> {}, inflight |-> {}]
    /\ started = [i \in AllIds |-> 0]
    /\ done = {}
    /\ result = [i \in AllIds |-> "none"]
    /\ rows = [i \in AllIds |-> <<>>]
    /\ inserted = [i \in AllIds |-> 0]
    /\ decoded = {}
    /\ panicLog = {}
    /\ dropLog = <<>>

\* no conversion is being followed on its own
NoConversion ==
    /\ logData = ZeroLogData
    /\ nginxAccessLog = NotConverted

\* a pool in the hands of API clients
Init == NewWorkerPool /\ InitRest /\ NoConversion /\ cpc = "idle" /\ rpc = "off"

\* main, about to call startUDPServer
ServerInit ==
    NewWorkerPool /\ InitRest /\ NoConversion /\ cpc = "deferred" /\ rpc = "bind"

\* processData at the conversion, with logData as decoded
ConvInit ==
    /\ NewWorkerPool /\ InitRest /\ cpc = "deferred" /\ rpc = "off"
    /\ logData \in WireRecords
    /\ nginxAccessLog = NotConverted

\* ---------------------------------------------------------- WorkerPool
Running == proc = "running"

\* Submit without the nil check
SubmitNoNilCheck(task, r) ==
    IF closed
    THEN r = "panic" /\ proc' = "crashed" /\ UNCHANGED taskQueue
    ELSE IF Len(taskQueue) < QueueCap
    THEN r = "true" /\ taskQueue' = Append(taskQueue, task) /\ UNCHANGED proc
    ELSE r = "false" /\ UNCHANGED <<taskQueue, proc>>

\* Submit whose send puts the task at the front of the channel
SubmitAtFront(task, r) ==
    IF task = NilTask
    THEN r = "false" /\ UNCHANGED <<taskQueue, proc>>
    ELSE IF closed
    THEN r = "panic" /\ proc' = "crashed" /\ UNCHANGED taskQueue
    ELSE IF Len(taskQueue) < QueueCap
    THEN r = "true" /\ taskQueue' = <<task>> \o taskQueue /\ UNCHANGED proc
    ELSE r = "false" /\ UNCHANGED <<taskQueue, proc>>

\* Submit whose send finds room in the channel whatever it holds
SubmitUnbounded(task, r) ==
    IF task = NilTask
    THEN r = "false" /\ UNCHANGED <<taskQueue, proc>>
    ELSE IF closed
    THEN r = "panic" /\ proc' = "crashed" /\ UNCHANGED taskQueue
    ELSE r = "true" /\ taskQueue' = Append(taskQueue, task) /\ UNCHANGED proc

\* Submit(task) returning r ("true", "false", or "panic" when the send finds
\* the channel closed and the goroutine panics, which ends the process)
Submit(task, r) ==
    IF task = NilTask
    THEN r = "false" /\ UNCHANGED <<taskQueue, proc>>
    ELSE IF closed
    THEN r = "panic" /\ proc' = "crashed" /\ UNCHANGED taskQueue
    ELSE IF Len(taskQueue) < QueueCap
    THEN r = "true" /\ taskQueue' = Append(taskQueue, task) /\ UNCHANGED proc
    ELSE r = "false" /\ UNCHANGED <<taskQueue, proc>>

\* how executing a task ends ("block": it does not end)
TaskKind(t) ==
    CASE t.fn = "processData" -> ProcessKind(t.data)
      [] t.fn = "return" -> "return"
      [] t.fn = "block" -> "block"
      [] OTHER -> "panic"

\* what executing a task comes to
TaskOutcome(t) ==
    IF t.fn = "processData" THEN ProcessData(t.data)
    ELSE [kind |-> TaskKind(t), decoded |-> FALSE, row |-> <<>>]

\* a pool whose workers receive nothing while a task that does not return
\* holds one of them
WorkerTakeUnlessBlocked(w) ==
    /\ Running
    /\ wstate[w] = "range"
    /\ taskQueue # <<>>
    /\ \A v \in WorkerIds : ~(wstate[v] = "task" /\ cur[v].fn = "block")
    /\ cur' = [cur EXCEPT ![w] = Head(taskQueue)]
    /\ taskQueue' = Tail(taskQueue)
    /\ wstate' = [wstate EXCEPT ![w] = "task"]
    /\ started' = [started EXCEPT ![Head(taskQueue).id] = @ + 1]
    /\ UNCHANGED <<closed, wg, proc, cpc, lastCall, recvVars, convVars, nextId,
                   accepted, rejected, acceptors, atClose, done, result, rows,
                   inserted, decoded, panicLog>>

\* a receive that leaves the task in the channel
WorkerTakeKeepsTask(w) ==
    /\ Running
    /\ wstate[w] = "range"
    /\ taskQueue # <<>>
    /\ cur' = [cur EXCEPT ![w] = Head(taskQueue)]
    /\ wstate' = [wstate EXCEPT ![w] = "task"]
    /\ started' = [started EXCEPT ![Head(taskQueue).id] = @ + 1]
    /\ UNCHANGED <<taskQueue, closed, wg, proc, cpc, lastCall, recvVars, convVars,
                   nextId, accepted, rejected, acceptors, atClose, done, result,
                   rows, inserted, decoded, panicLog>>

\* a receive that takes the task sent last
WorkerTakeLast(w) ==
    /\ Running
    /\ wstate[w] = "range"
    /\ taskQueue # <<>>
    /\ cur' = [cur EXCEPT ![w] = taskQueue[Len(taskQueue)]]
    /\ taskQueue' = SubSeq(taskQueue, 1, Len(taskQueue) - 1)
    /\ wstate' = [wstate EXCEPT ![w] = "task"]
    /\ started' = [started EXCEPT ![taskQueue[Len(taskQueue)].id] = @ + 1]
    /\ UNCHANGED <<closed, wg, proc, cpc, lastCall, recvVars, convVars, nextId,
                   accepted, rejected, acceptors, atClose, done, result, rows,
                   inserted, decoded, panicLog>>

\* for task := range wp.taskQueue: a worker receives the next task
WorkerTake(w) ==
    /\ Running
    /\ wstate[w] = "range"
    /\ taskQueue # <<>>
    /\ cur' = [cur EXCEPT ![w] = Head(taskQueue)]
    /\ taskQueue' = Tail(taskQueue)
    /\ wstate' = [wstate EXCEPT ![w] = "task"]
    /\ started' = [started EXCEPT ![Head(taskQueue).id] = @ + 1]
    /\ UNCHANGED <<closed, wg, proc, cpc, lastCall, recvVars, convVars, nextId, accepted,
                   rejected, acceptors, atClose, done, result, rows, inserted,
                   decoded, panicLog>>

\* what the task leaves behind, however it ends
TaskEffects(t, out) ==
    /\ done' = done \cup {t.id}
    /\ result' = [result EXCEPT ![t.id] = out.kind]
    /\ decoded' = IF out.decoded THEN decoded \cup {t.id} ELSE decoded
    /\ rows' = [rows EXCEPT ![t.id] = @ \o out.row]
    /\ inserted' = [inserted EXCEPT ![t.id] = IF out.kind = "row" THEN @ + 1 ELSE @]

\* task() returns; the worker goes back to the channel
WorkerTaskReturn(w) ==
    /\ Running
    /\ wstate[w] = "task"
    /\ TaskKind(cur[w]) \notin {"panic", "block"}
    /\ TaskEffects(cur[w], TaskOutcome(cur[w]))
    /\ wstate' = [wstate EXCEPT ![w] = "range"]
    /\ cur' = [cur EXCEPT ![w] = NilTask]
    /\ UNCHANGED <<taskQueue, closed, wg, proc, cpc, lastCall, recvVars, convVars, nextId,
                   accepted, rejected, acceptors, atClose, started, panicLog>>

\* task() panics and nothing recovers it: the panic ends the process
WorkerTaskPanicUnrecovered(w) ==
    /\ Running
    /\ wstate[w] = "task"
    /\ TaskKind(cur[w]) = "panic"
    /\ proc' = "crashed"
    /\ UNCHANGED <<poolVars, cpc, lastCall, recvVars, convVars, nextId, accepted, rejected,
                   acceptors, atClose, taskVars>>

\* task() panics; the deferred recover logs it with the worker's id and the
\* worker goes back to the channel
WorkerTaskPanic(w) ==
    /\ Running
    /\ wstate[w] = "task"
    /\ TaskKind(cur[w]) = "panic"
    /\ TaskEffects(cur[w], TaskOutcome(cur[w]))
    /\ panicLog' = panicLog \cup {<<w, cur[w].id>>}
    /\ wstate' = [wstate EXCEPT ![w] = "range"]
    /\ cur' = [cur EXCEPT ![w] = NilTask]
    /\ UNCHANGED <<taskQueue, closed, wg, proc, cpc, lastCall, recvVars, convVars, nextId,
                   accepted, rejected, acceptors, atClose, started>>

\* the range loop ends on a closed, drained channel; defer wp.wg.Done()
WorkerExit(w) ==
    /\ Running
    /\ wstate[w] = "range"
    /\ taskQueue = <<>>
    /\ closed
    /\ wstate' = [wstate EXCEPT ![w] = "exited"]
    /\ wg' = wg - 1
    /\ UNCHANGED <<taskQueue, closed, cur, proc, cpc, lastCall, recvVars, convVars, nextId,
                   accepted, rejected, acceptors, atClose, taskVars>>

\* Close: close(wp.taskQueue)
CloseChannel ==
    /\ Running
    /\ cpc = "idle"
    /\ closed' = TRUE
    /\ cpc' = "wait"
    /\ atClose' = [accepted |-> accepted,
                   queued |-> {taskQueue[i].id : i \in 1..Len(taskQueue)},
                   inflight |-> {cur[w].id : w \in {v \in WorkerIds : wstate[v] = "task"}}]
    /\ UNCHANGED <<taskQueue, wg, wstate, cur, proc, lastCall, recvVars, convVars, nextId,
                   accepted, rejected, acceptors, taskVars>>

\* Close returning without the wait
CloseNoWait ==
    /\ Running
    /\ cpc = "wait"
    /\ cpc' = "returned"
    /\ UNCHANGED <<poolVars, proc, lastCall, recvVars, convVars, nextId, accepted, rejected,
                   acceptors, atClose, taskVars>>

\* Close: wp.wg.Wait() returns
CloseWait ==
    /\ Running
    /\ cpc = "wait"
    /\ wg = 0
    /\ cpc' = "returned"
    /\ UNCHANGED <<poolVars, proc, lastCall, recvVars, convVars, nextId, accepted, rejected,
                   acceptors, atClose, taskVars>>

\* ------------------------------------------------------- API clients
\* a client goroutine calls Submit with a func() of the given body
ProducerSubmit(p, body) ==
    /\ Running
    /\ body = "nil" \/ nextId <= MaxTasks
    /\ LET task == IF body = "nil" THEN NilTask
                   ELSE Closure(nextId, body, <<>>, NoAddr)
       IN  \E r \in {"true", "false", "panic"} :
             /\ Submit(task, r)
             /\ lastCall' = [nil |-> body = "nil",
                              full |-> Len(taskQueue) = QueueCap,
                              closed |-> closed, res |-> r]
             /\ nextId' = IF body = "nil" THEN nextId ELSE nextId + 1
             /\ accepted' = IF r = "true" THEN accepted \cup {task.id} ELSE accepted
             /\ rejected' = IF r = "false" /\ body # "nil"
                            THEN rejected \cup {task.id} ELSE rejected
             /\ acceptors' = IF r = "true" THEN acceptors \cup {p} ELSE acceptors
    /\ UNCHANGED <<closed, wg, wstate, cur, cpc, recvVars, convVars, atClose, taskVars>>

\* the accepted tasks whose func() does not return, waiting or running
BlockingIds ==
    {taskQueue[i].id : i \in {k \in 1..Len(taskQueue) : taskQueue[k].fn = "block"}}
    \cup {cur[w].id : w \in {v \in WorkerIds :
                                wstate[v] = "task" /\ cur[v].fn = "block"}}

\* a client goroutine calls Submit with a func() that never returns; the
\* clients leave at least one worker free of such tasks
ProducerSubmitBlocking(p) ==
    /\ Cardinality(BlockingIds) < Workers - 1
    /\ ProducerSubmit(p, "block")

\* ------------------------------------------------------ startUDPServer
Min(a, b) == IF a < b THEN a ELSE b

\* net.ListenUDP succeeds; the receiver enters its loop
Bind ==
    /\ Running
    /\ rpc = "bind"
    /\ rpc' = "read"
    /\ UNCHANGED <<poolVars, proc, cpc, lastCall, buffer, readErrLogged,
                   readAfterErr, connClosed, dgram, sender, dropLog, convVars,
                   nextId, accepted, rejected, acceptors, atClose, taskVars>>

\* net.ListenUDP fails: log.Fatalf ends the process, deferred calls unrun
BindFail ==
    /\ Running
    /\ rpc = "bind"
    /\ rpc' = "stopped"
    /\ proc' = "exited"
    /\ UNCHANGED <<poolVars, cpc, lastCall, buffer, readErrLogged,
                   readAfterErr, connClosed, dgram, sender, dropLog, convVars,
                   nextId, accepted, rejected, acceptors, atClose, taskVars>>

\* an iteration that holds on to a datagram the pool rejected and puts its
\* task in the queue all the same
RecvDatagramKept(d) ==
    /\ Running
    /\ rpc = "read"
    /\ IF Len(taskQueue) < QueueCap
       THEN Cardinality(accepted) < MaxDatagrams
       ELSE Cardinality(rejected) < MaxDrops
    /\ LET task == Closure(nextId, "processData", d.data, d.from)
       IN  /\ taskQueue' = Append(taskQueue, task)
           /\ IF Len(taskQueue) < QueueCap
              THEN accepted' = accepted \cup {nextId} /\ UNCHANGED <<rejected, dropLog>>
              ELSE /\ rejected' = rejected \cup {nextId}
                   /\ dropLog' = Append(dropLog, d.from)
                   /\ UNCHANGED accepted
           /\ dgram' = [dgram EXCEPT ![nextId] = d.data]
           /\ sender' = [sender EXCEPT ![nextId] = d.from]
    /\ nextId' = nextId + 1
    /\ UNCHANGED <<closed, wg, wstate, cur, proc, cpc, lastCall, rpc, buffer,
                   readErrLogged, readAfterErr, connClosed, convVars, acceptors,
                   atClose, taskVars>>

\* an iteration whose closure holds buffer[:n] itself, not a copy: the read
\* overwrites the payload of every task still queued or running
RecvDatagramAliased(d) ==
    /\ Running
    /\ rpc = "read"
    /\ ~connClosed
    /\ IF Len(taskQueue) < QueueCap
       THEN Cardinality(accepted) < MaxDatagrams
       ELSE Cardinality(rejected) < MaxDrops
    /\ LET n == Min(Len(d.data), BufSize)
           filled == [i \in 1..BufSize |-> IF i <= n THEN d.data[i] ELSE buffer[i]]
           seen(t) == [t EXCEPT !.data = SubSeq(filled, 1, Len(t.data))]
           queue == [i \in 1..Len(taskQueue) |-> seen(taskQueue[i])]
           task == Closure(nextId, "processData", SubSeq(filled, 1, n), d.from)
           ok == Len(taskQueue) < QueueCap
       IN  /\ buffer' = filled
           /\ dgram' = [dgram EXCEPT ![nextId] = SubSeq(filled, 1, n)]
           /\ sender' = [sender EXCEPT ![nextId] = d.from]
           /\ taskQueue' = IF ok THEN Append(queue, task) ELSE queue
           /\ cur' = [w \in WorkerIds |->
                        IF wstate[w] = "task" THEN seen(cur[w]) ELSE cur[w]]
           /\ accepted' = IF ok THEN accepted \cup {nextId} ELSE accepted
           /\ rejected' = IF ok THEN rejected ELSE rejected \cup {nextId}
           /\ dropLog' = IF ok THEN dropLog ELSE Append(dropLog, d.from)
           /\ readAfterErr' = (readAfterErr \/ (readErrLogged /\ ok))
    /\ nextId' = nextId + 1
    /\ rpc' = "read"
    /\ UNCHANGED <<closed, wg, wstate, proc, cpc, lastCall, readErrLogged,
                   connClosed, convVars, acceptors, atClose, taskVars>>

\* one iteration of the loop in which conn.ReadFromUDP(buffer) returns the
\* datagram d: its first n bytes, as many as the buffer holds, overwrite the
\* start of the buffer; data := string(buffer[:n]);
\* workerPool.Submit(func() { processData(data, remoteAddr) }); a rejection
\* is logged with the sender
RecvDatagram(d) ==
    /\ Running
    /\ rpc = "read"
    /\ ~connClosed
    /\ IF Len(taskQueue) < QueueCap
       THEN Cardinality(accepted) < MaxDatagrams
       ELSE Cardinality(rejected) < MaxDrops
    /\ LET n == Min(Len(d.data), BufSize)
           remoteAddr == d.from
           filled == [i \in 1..BufSize |-> IF i <= n THEN d.data[i] ELSE buffer[i]]
           data == SubSeq(filled, 1, n)
           task == Closure(nextId, "processData", data, remoteAddr)
       IN  /\ buffer' = filled
           /\ dgram' = [dgram EXCEPT ![nextId] = data]
           /\ sender' = [sender EXCEPT ![nextId] = remoteAddr]
           /\ \E r \in {"true", "false", "panic"} :
                 /\ Submit(task, r)
                 /\ accepted' = IF r = "true" THEN accepted \cup {nextId}
                                ELSE accepted
                 /\ rejected' = IF r = "false" THEN rejected \cup {nextId}
                                ELSE rejected
                 /\ dropLog' = IF r = "false" THEN Append(dropLog, remoteAddr)
                               ELSE dropLog
                 /\ readAfterErr' = (readAfterErr \/ (readErrLogged /\ r = "true"))
    /\ nextId' = nextId + 1
    /\ rpc' = "read"
    /\ UNCHANGED <<closed, wg, wstate, cur, cpc, lastCall, readErrLogged,
                   connClosed, convVars, acceptors, atClose, taskVars>>

\* an iteration that leaves the loop when the read fails
RecvReadErrReturns ==
    /\ Running
    /\ rpc = "read"
    /\ readErrLogged' = TRUE
    /\ rpc' = "stopped"
    /\ UNCHANGED <<poolVars, proc, cpc, lastCall, buffer, readAfterErr,
                   connClosed, dgram, sender, dropLog, convVars, nextId, accepted,
                   rejected, acceptors, atClose, taskVars>>

\* one iteration in which conn.ReadFromUDP(buffer) returns an error: it is
\* logged, continue
RecvReadErr ==
    /\ Running
    /\ rpc = "read"
    /\ readErrLogged' = TRUE
    /\ rpc' = "read"
    /\ UNCHANGED <<poolVars, proc, cpc, lastCall, buffer, readAfterErr,
                   connClosed, dgram, sender, dropLog, convVars, nextId, accepted,
                   rejected, acceptors, atClose, taskVars>>

\* an iteration whose read finds the socket closed and returns from
\* startUDPServer: main returns and its deferred Close closes the channel
RecvReadErrClosedReturns ==
    /\ Running
    /\ rpc = "read"
    /\ readErrLogged' = TRUE
    /\ connClosed' = TRUE
    /\ rpc' = "stopped"
    /\ closed' = TRUE
    /\ cpc' = "wait"
    /\ UNCHANGED <<taskQueue, wg, wstate, cur, proc, lastCall, buffer,
                   readAfterErr, dgram, sender, dropLog, convVars, nextId,
                   accepted, rejected, acceptors, atClose, taskVars>>

\* one iteration in which conn.ReadFromUDP(buffer) fails because the socket
\* is closed (net.ErrClosed, which every later read returns too): the error
\* is logged like any other, continue
RecvReadErrClosed ==
    /\ Running
    /\ rpc = "read"
    /\ readErrLogged' = TRUE
    /\ connClosed' = TRUE
    /\ rpc' = "read"
    /\ UNCHANGED <<poolVars, proc, cpc, lastCall, buffer, readAfterErr, dgram,
                   sender, dropLog, convVars, nextId, accepted, rejected,
                   acceptors, atClose, taskVars>>

\* ---------------------------------------------------------- conversion
\* processData from time.Unix to the nginxAccessLog literal: the numeric
\* members are parsed with their errors dropped, the request line is split,
\* and the row is built, or url[1] or url[2] panics
Convert ==
    /\ nginxAccessLog = NotConverted
    /\ LET url == Split(logData.Request, " ")
       IN  nginxAccessLog' =
              IF Len(url) < 3 THEN [kind |-> "panic", row |-> <<>>]
              ELSE [kind |-> "row", row |-> <<NginxAccessLog(logData, url)>>]
    /\ UNCHANGED <<poolVars, proc, cpc, lastCall, recvVars, logData, nextId,
                   accepted, rejected, acceptors, atClose, taskVars>>

\* ------------------------------------------------------ specifications
Next ==
    \/ \E p \in Producers, body \in Bodies : ProducerSubmit(p, body)
    \/ CloseChannel
    \/ CloseWait
    \/ \E w \in WorkerIds : WorkerTake(w)
    \/ \E w \in WorkerIds : WorkerTaskReturn(w)
    \/ \E w \in WorkerIds : WorkerTaskPanic(w)
    \/ \E w \in WorkerIds : WorkerExit(w)

Spec == Init /\ [][Next]_vars

ServerNext ==
    \/ Bind
    \/ BindFail
    \/ \E d \in Datagrams : RecvDatagram(d)
    \/ RecvReadErr
    \/ \E w \in WorkerIds : WorkerTake(w)
    \/ \E w \in WorkerIds : WorkerTaskReturn(w)
    \/ \E w \in WorkerIds : WorkerTaskPanic(w)

ServerSpec == ServerInit /\ [][ServerNext]_vars

\* a step of worker w, and the states in which it can take one
WorkerStep(w) == WorkerTake(w) \/ WorkerTaskReturn(w) \/ WorkerTaskPanic(w)

WorkerCanStep(w) ==
    /\ Running
    /\ \/ wstate[w] = "task" /\ cur[w].fn # "block"
       \/ wstate[w] = "range" /\ taskQueue # <<>>

\* the Go scheduler runs every goroutine that can run: weak fairness of each
\* worker's steps, with the enabling condition written out
WorkerFairness ==
    \A w \in WorkerIds :
        []<>(~WorkerCanStep(w)) \/ []<><<WorkerStep(w)>>_vars

FairServerSpec == ServerSpec /\ WorkerFairness

\* the program main builds, with the read errors told apart: one that passes
\* and the closed socket, after which no datagram is read
SocketNext ==
    \/ Bind
    \/ BindFail
    \/ \E d \in Datagrams : RecvDatagram(d)
    \/ RecvReadErr
    \/ RecvReadErrClosed
    \/ \E w \in WorkerIds : WorkerTake(w)
    \/ \E w \in WorkerIds : WorkerTaskReturn(w)
    \/ \E w \in WorkerIds : WorkerTaskPanic(w)

SocketSpec == ServerInit /\ [][SocketNext]_vars

\* a worker goroutine's steps in the pool the API clients use, the exit from
\* the range loop included
PoolWorkerStep(w) == WorkerStep(w) \/ WorkerExit(w)

\* the pool under a scheduler that runs every goroutine that can run: each
\* worker, and the goroutine inside Close once the wait can end
FairSpec ==
    /\ Spec
    /\ \A w \in WorkerIds : WF_vars(PoolWorkerStep(w))
    /\ WF_vars(CloseWait)

\* a pool nobody closes, whose clients also submit tasks that never return,
\* under a scheduler that runs every worker that can run
BlockNext ==
    \/ \E p \in Producers, body \in Bodies : ProducerSubmit(p, body)
    \/ \E p \in Producers : ProducerSubmitBlocking(p)
    \/ \E w \in WorkerIds : WorkerTake(w)
    \/ \E w \in WorkerIds : WorkerTaskReturn(w)
    \/ \E w \in WorkerIds : WorkerTaskPanic(w)

BlockSpec ==
    /\ Init
    /\ [][BlockNext]_vars
    /\ \A w \in WorkerIds : WF_vars(WorkerStep(w))

\* the conversion alone, from every record of WireRecords
ConvNext == Convert

ConvSpec == ConvInit /\ [][ConvNext]_vars

\* -------------------------------------------------------------- claims
QueuedIds == {taskQueue[i].id : i \in 1..Len(taskQueue)}
InFlightIds == {cur[w].id : w \in {v \in WorkerIds : wstate[v] = "task"}}

\* C1: when Close has returned, every task whose Submit had returned true
\* when Close was called, whether it was then waiting in the queue or being
\* executed, has finished executing; none is left in the queue or on a worker.
C1_CloseLosesNoTask ==
    cpc = "returned" =>
        /\ atClose.accepted \subseteq done
        /\ QueuedIds = {}
        /\ InFlightIds = {}

\* C1 witness: Close has returned after it was called with tasks of both
\* clients accepted, some still queued and some in flight.
C1_Witness ==
    /\ cpc = "returned"
    /\ acceptors = Producers
    /\ atClose.queued # {}
    /\ atClose.inflight # {}

\* C2 as stated: in every state of the pool, a Submit call that finds the
\* queue holding QueueCap tasks ends, in its one step, by returning false, and
\* leaves the queue as it was.
C2_SubmitNeverBlocksFullRejects ==
    [][\A p \in Producers, b \in Bodies :
         (ProducerSubmit(p, b) /\ Len(taskQueue) = QueueCap) =>
            (lastCall'.res = "false" /\ taskQueue' = taskQueue)]_vars

\* C4 as stated: a Submit call made once Close has been called returns false
\* without faulting, and its task is neither enqueued nor executed.
C4_SubmitAfterCloseRejects ==
    /\ proc # "crashed"
    /\ lastCall.closed => lastCall.res = "false"
    /\ closed => accepted = atClose.accepted

\* C10: a Submit call with the nil func returns false, whatever the state of
\* the pool, and leaves the queue, the channel, the workers and the process
\* as they were.
C10_NilTaskRejected ==
    [][\A p \in Producers :
         ProducerSubmit(p, "nil") =>
            /\ lastCall'.res = "false"
            /\ UNCHANGED <<poolVars, proc, accepted, nextId>>]_vars

\* C10 witness: the nil func was rejected by an open pool whose queue had room.
C10_Witness ==
    /\ lastCall.nil
    /\ ~lastCall.full
    /\ ~lastCall.closed
    /\ lastCall.res = "false"

\* C3: a task that panics does not end its worker or the process and touches
\* no other worker and no queued task: the worker is back at the channel, so
\* all Workers workers stay alive while the pool is open, and under fair
\* scheduling every accepted task, those accepted after or alongside a
\* panicking one included, is executed.
C3_FaultIsolation ==
    /\ [](Running /\ ~closed => \A w \in WorkerIds : wstate[w] # "exited")
    /\ [][\A w \in WorkerIds :
            WorkerTaskPanic(w) =>
               /\ wstate'[w] = "range"
               /\ proc' = "running"
               /\ taskQueue' = taskQueue
               /\ \A v \in WorkerIds \ {w} :
                     wstate'[v] = wstate[v] /\ cur'[v] = cur[v]]_vars
    /\ \A id \in 1..(MaxDatagrams + MaxDrops) : (id \in accepted) ~> (id \in done)

\* C3 witness: after a worker recovered from a panicking task, a task that
\* arrived later has been executed to a row and that same worker is executing
\* another later task.
C3_Witness ==
    \E e \in panicLog :
        /\ \E id \in done : id > e[2] /\ result[id] = "row"
        /\ wstate[e[1]] = "task"
        /\ cur[e[1]].id > e[2]

\* C5: a datagram whose task Submit rejected is logged as dropped and kept
\* nowhere: its task is not in the queue, not on a worker, was never started
\* and never ends; the receiver is not held up by it, it is back at the read.
C5_RejectedDatagramDropped ==
    /\ \A id \in rejected :
          /\ id \notin accepted
          /\ id \notin QueuedIds
          /\ id \notin InFlightIds
          /\ started[id] = 0
          /\ id \notin done
    /\ Len(dropLog) = Cardinality(rejected)
    /\ rejected # {} => rpc = "read" /\ Running

\* C5 witness: a datagram was rejected and a datagram read after it was
\* accepted and has been executed.
C5_Witness ==
    \E r \in rejected : \E a \in done : a > r

\* what the spec counts as a record that converts: the text is not blank and
\* its decoded request line splits into exactly three tokens
Blank(data) == Len(TrimSpace(data)) = 0
RequestTokens(data) == Split(Unmarshal(TrimSpace(data)).Request, " ")
Converts(data) == ~Blank(data) /\ Len(RequestTokens(data)) = 3

\* C6 as stated: the receiver calls Submit only for a datagram that is not
\* empty and not empty after trimming.
C6_OnlyNonBlankSubmitted ==
    \A id \in accepted \cup rejected : ~Blank(dgram[id])

\* C6 amended: every datagram read is submitted, an empty or whitespace-only
\* one included; the check is made by the task, which for such a datagram
\* returns without decoding, without a panic, without a row and without an
\* insert.
C6_BlankDatagramTaskReturns ==
    /\ \A id \in 1..(nextId - 1) : id \in accepted \cup rejected
    /\ \A id \in done :
          Blank(dgram[id]) =>
             /\ result[id] \in {"empty", "blank"}
             /\ id \notin decoded
             /\ rows[id] = <<>>
             /\ inserted[id] = 0
             /\ \A e \in panicLog : e[2] # id

\* C6 witness: a whitespace-only datagram and an empty one were accepted,
\* took a worker each and their tasks have returned.
C6_Witness ==
    /\ \E id \in accepted \cap done : dgram[id] # <<>> /\ Blank(dgram[id])
    /\ \E id \in accepted \cap done : dgram[id] = <<>>

\* C7 as stated: a payload whose request line does not split into exactly
\* three tokens ends in an explicit conversion failure: its task does not
\* panic at the worker and prints no row.
C7_BadRequestLineFailsExplicitly ==
    \A id \in done :
        (~Blank(dgram[id]) /\ Len(RequestTokens(dgram[id])) # 3) =>
           /\ result[id] \notin {"panic", "row"}
           /\ \A e \in panicLog : e[2] # id
           /\ rows[id] = <<>>

\* C8 as stated: the write to the sink (the insert the task reports) happens
\* once for an accepted datagram whose record converts and never for any
\* other datagram.
C8_OneWritePerConvertedRecord ==
    \A id \in AllIds :
        inserted[id] =
            IF id \in accepted \cap done /\ Converts(dgram[id]) THEN 1 ELSE 0

\* C9: an iteration whose read fails submits nothing and leaves the receiver
\* in its loop, at the next read; once a read has failed the receiver is
\* still reading for as long as the process runs.
C9_ReadErrorKeepsListening ==
    /\ [][RecvReadErr =>
            /\ rpc' = "read"
            /\ proc' = "running"
            /\ UNCHANGED <<taskQueue, accepted, rejected, nextId>>]_vars
    /\ [](readErrLogged /\ Running => rpc = "read")

\* C9 witness: after a failed read a datagram was read and accepted, and its
\* task has been executed.
C9_Witness ==
    /\ readErrLogged
    /\ readAfterErr
    /\ accepted # {}
    /\ accepted \subseteq done

\* what C11 takes a numeric member to become: zero when its text fails to
\* parse, the parsed value otherwise
CoercedInt(s) == IF AtoiErr(s) # "nil" THEN 0 ELSE Atoi(s)
CoercedFloat(s) == IF ParseFloatErr(s) # "nil" THEN ZeroFloat ELSE ParseFloat(s)

\* C11 as stated: the conversion of a record whose request line has three
\* tokens succeeds, each of status, body_bytes_sent, request_length,
\* bytes_sent, request_time and upstream_response_time whose text fails to
\* parse is zero in the row, and every other member of the row has the value
\* the conversion gives it.
C11_FailedNumericFieldIsZero ==
    (nginxAccessLog.kind # "none" /\ Len(Split(logData.Request, " ")) = 3) =>
        /\ nginxAccessLog.kind = "row"
        /\ nginxAccessLog.row[1] =
              [NginxAccessLog(logData, Split(logData.Request, " ")) EXCEPT
                  !.Status = CoercedInt(logData.Status),
                  !.BodyBytesSent = CoercedInt(logData.BodyBytesSent),
                  !.RequestLength = CoercedInt(logData.RequestLength),
                  !.BytesSent = CoercedInt(logData.BytesSent),
                  !.RequestTime = CoercedFloat(logData.RequestTime),
                  !.UpstreamResponseTime =
                      CoercedFloat(logData.UpstreamResponseTime)]

\* tasks taken off the queue whose execution has not ended
ExecutingIds == {id \in AllIds : started[id] > 0 /\ id \notin done}

\* C12: in every reachable state the queue holds at most the capacity the
\* pool was created with (workers times the slots per worker), and the tasks
\* being executed are at most Workers, one to a worker.
C12_ResourceBounds ==
    /\ Len(taskQueue) <= QueueCap
    /\ Cardinality(ExecutingIds) <= Workers
    /\ ExecutingIds = InFlightIds
    /\ Cardinality(InFlightIds) = Cardinality({w \in WorkerIds : wstate[w] = "task"})

\* C12 witness: the queue is at its capacity while a worker executes a task,
\* and a Submit made in that state has been rejected.
C12_Witness ==
    /\ Len(taskQueue) = QueueCap
    /\ \E w \in WorkerIds : wstate[w] = "task"
    /\ \E id \in rejected : \A q \in QueuedIds \cup InFlightIds : q < id

\* C13 as stated: under fair scheduling of the workers, with every task
\* returning or panicking, a Close call that has closed the channel
\* eventually returns, with all Workers workers exited.
C13_CloseReturns ==
    (cpc = "wait") ~> (cpc = "returned" /\ \A w \in WorkerIds : wstate[w] = "exited")

\* C14 as stated: the receiver is Listening or Stopped and nothing else; once
\* the bind has failed, or once the socket is closed, it is Stopped: the loop
\* has ended and no read or Submit follows.
C14_StoppedAfterSocketClose ==
    /\ rpc \in {"bind", "read", "stopped"}
    /\ proc = "exited" => rpc = "stopped"
    /\ connClosed => rpc = "stopped"

\* C19: in the program main builds, Close is never executed: the deferred
\* call stays pending and the channel open in every state; once the receiver
\* is in its loop every step leaves it there, a failed read on a closed
\* socket included; and a failed bind ends the process with Close unrun.
C19_CloseNeverRuns ==
    /\ [](cpc = "deferred" /\ ~closed /\ wg = Workers)
    /\ [][rpc = "read" => rpc' = "read"]_vars
    /\ [][RecvReadErrClosed => (rpc' = "read" /\ proc' = "running")]_vars
    /\ [][BindFail => (proc' = "exited" /\ cpc' = "deferred" /\ ~closed')]_vars

\* C19 witness: the socket is closed and its read error logged, the receiver
\* is still in its loop with Close pending, and the tasks accepted before are
\* all executed.
C19_Witness ==
    /\ connClosed
    /\ readErrLogged
    /\ rpc = "read"
    /\ cpc = "deferred"
    /\ accepted # {}
    /\ accepted \subseteq done

\* C15: the single receiver submits the tasks in the order the datagrams
\* arrived: the tasks waiting in the queue stand in arrival order, and each
\* arrived after every task already taken off the queue. (That completion
\* order may differ is the reachable state of the witness.)
C15_SubmittedInArrivalOrder ==
    /\ \A i, j \in 1..Len(taskQueue) :
          i < j => taskQueue[i].id < taskQueue[j].id
    /\ \A q \in QueuedIds : \A id \in accepted : started[id] > 0 => id < q

\* C15 witness: with two workers, the task of a later datagram has completed
\* while the task of an earlier one, taken off the queue before it, has not.
C15_Witness ==
    \E a \in accepted : \E b \in accepted :
        /\ a < b
        /\ b \in done
        /\ a \in InFlightIds
        /\ a \notin done

\* C16: the payload and the sender a task holds, while it waits and while it
\* runs, are those of the datagram it was created for, whatever the receiver
\* has read into the buffer since; and what a finished task did is what
\* processData does with that datagram's payload.
C16_TaskOwnsPayload ==
    /\ \A i \in 1..Len(taskQueue) :
          /\ taskQueue[i].data = dgram[taskQueue[i].id]
          /\ taskQueue[i].addr = sender[taskQueue[i].id]
    /\ \A w \in WorkerIds :
          wstate[w] = "task" =>
             /\ cur[w].data = dgram[cur[w].id]
             /\ cur[w].addr = sender[cur[w].id]
    /\ \A id \in done :
          /\ result[id] = ProcessKind(dgram[id])
          /\ rows[id] = ProcessData(dgram[id]).row

\* C16 witness: a task is running whose datagram was followed by two more,
\* from another sender, and the buffer no longer starts with its payload;
\* a task created for an earlier datagram has finished with a row.
C16_Witness ==
    \E w \in WorkerIds :
        /\ wstate[w] = "task"
        /\ cur[w].data # <<>>
        /\ SubSeq(buffer, 1, Len(cur[w].data)) # cur[w].data
        /\ nextId > cur[w].id + 2
        /\ sender[nextId - 1] # cur[w].addr
        /\ \E id \in done : id < cur[w].id /\ result[id] = "row"

\* C17: a task that never returns holds the one worker that took it, in
\* every later state, and holds nothing else: under fair scheduling every
\* accepted task is in the end either executed to its end or, if it is one
\* that never returns, on a worker.
C17_BlockedTaskHoldsOneWorker ==
    /\ [][\A w \in WorkerIds :
            (wstate[w] = "task" /\ cur[w].fn = "block") =>
               (wstate'[w] = "task" /\ cur'[w] = cur[w])]_vars
    /\ [](\A id \in BlockingIds :
            Cardinality({w \in WorkerIds : wstate[w] = "task" /\ cur[w].id = id}) <= 1)
    /\ \A id \in 1..MaxTasks :
          (id \in accepted) ~>
             (id \in done \/ (id \in BlockingIds /\ id \in InFlightIds))

\* C17 witness: a worker is held by a task that never returns, and two tasks
\* accepted after that one have been executed, one of them a panicking task
\* on another worker.
C17_Witness ==
    \E w \in WorkerIds :
        /\ wstate[w] = "task"
        /\ cur[w].fn = "block"
        /\ \E e \in panicLog : e[1] # w /\ e[2] > cur[w].id
        /\ \E id \in done : id > cur[w].id /\ result[id] = "return"

\* C18: whatever the interleaving of Submit calls and worker steps, a task
\* whose Submit returned true is taken off the queue at most once and is on
\* at most one worker, a task is taken only if its Submit returned true, and
\* a task whose Submit returned false is never in the queue nor taken.
C18_StartedAtMostOnce ==
    /\ \A id \in AllIds : started[id] <= 1
    /\ \A id \in AllIds : started[id] > 0 => id \in accepted
    /\ \A id \in rejected :
          started[id] = 0 /\ id \notin QueuedIds /\ id \notin InFlightIds
    /\ \A w, v \in WorkerIds :
          (wstate[w] = "task" /\ wstate[v] = "task" /\ cur[w].id = cur[v].id)
             => w = v
    /\ \A i, j \in 1..Len(taskQueue) :
          taskQueue[i].id = taskQueue[j].id => i = j
    /\ \A id \in QueuedIds : started[id] = 0

\* C18 witness: two accepted tasks have each been taken once and executed,
\* by clients' Submit calls that were both accepted, and a third task was
\* rejected and never taken.
C18_Witness ==
    /\ \E a \in accepted \cap done : \E b \in accepted \cap done :
          a # b /\ started[a] = 1 /\ started[b] = 1
    /\ \E id \in rejected : started[id] = 0
    /\ acceptors = Producers

\* the accepted tasks no worker has taken yet
WaitingIds == {id \in accepted : started[id] = 0}

\* C20: the queue is first in, first out: the task a worker takes is the one
\* accepted earliest among the accepted tasks not yet taken, so of two
\* accepted tasks the one whose Submit returned first is taken first.
C20_TakenInAcceptanceOrder ==
    [][\A w \in WorkerIds :
         WorkerTake(w) =>
            /\ cur'[w].id \in WaitingIds
            /\ \A id \in WaitingIds : cur'[w].id <= id]_vars

\* C20 witness: of two tasks that waited in the queue together, the earlier
\* accepted is on a worker and the later one is still waiting, while a task
\* accepted before both has completed.
C20_Witness ==
    \E a \in InFlightIds : \E b \in QueuedIds :
        /\ a < b
        /\ \E c \in done : c < a

====
